---- MODULE Spec2Model ----
(***************************************************************************)
(* Model of stockbook's runtime Stamp (src/src/lib.rs): a width, a height  *)
(* and a bit-packed byte array, with its size queries, its bounds test,    *)
(* its three pixel getters and its pixels() iterator.                      *)
(*                                                                         *)
(* The modules `data` and `iter` (lib.rs lines 94-95) and the stamp! macro *)
(* crate (line 100) are not part of the source at hand: the byte fetch,    *)
(* the iterator and the build-time packer are modelled from spec.md        *)
(* (sections 4.6, 4.2 and 4.3/4.4) and are marked so below.                *)
(***************************************************************************)
EXTENDS Integers, Sequences, FiniteSets, TLC

\* ------------------------------------------------------------------ bounds
MaxWidth == 3
MaxHeight == 3
MaxCoord == 3
MaxExtraNext == 2

\* Width of usize on the crate's primary target (AVR, 16-bit pointers).
usize_BITS == 16

\* Byte values hand-written arrays are drawn from: 0b00000000, 0b11111111,
\* 0b10101010.
ByteSamples == {0, 255, 170}

\* ------------------------------------------------------------------ values
Black == "Black"
White == "White"
Color == {Black, White}

None == <<>>
Some(v) == <<v>>
Panic == <<"panic">>

Byte == 0..255

wrapping(n) == n % (2 ^ usize_BITS)

Shr(a, n) == a \div (2 ^ n)

RECURSIVE BitAnd(_, _)
BitAnd(a, b) ==
    IF a = 0 \/ b = 0 THEN 0
    ELSE (IF a % 2 = 1 /\ b % 2 = 1 THEN 1 ELSE 0) + 2 * BitAnd(a \div 2, b \div 2)

CeilDiv8(n) == (n + 7) \div 8

\* ------------------------------------------------------------------ Stamp
from_raw(w, h, d) == [width |-> w, height |-> h, data |-> d]

size(s) == <<s.width, s.height>>

width(s) == s.width

height(s) == s.height

pixel_count_sum(s) == wrapping(s.width + s.height)

pixel_count(s) == wrapping(s.width * s.height)

is_within_bounds_inclusive(s, x, y) == x <= s.width /\ y <= s.height

is_within_bounds(s, x, y) == x < s.width /\ y < s.height

\* Data::get_unchecked: the bytes a fetch at offset i may yield.  Inside the
\* array it is the stored byte; outside it the read is undefined behaviour
\* and any byte may come back.
Data_get_unchecked(d, i) == IF i < Len(d) THEN {d[i + 1]} ELSE Byte

idx_stride_plus_one(s, x, y) == wrapping(y * (s.width + 1) + x)

idx_column_major(s, x, y) == wrapping(x * s.height + y)

idx(s, x, y) == wrapping(y * s.width + x)

mask_lsb_first(i) == 2 ^ (i % 8)

mask(i) == Shr(128, i % 8)

\* The outcomes of get_color_unchecked(x, y): the color returned and the
\* byte offset handed to the data fetch.
get_color_unchecked(s, x, y) ==
    LET i == idx(s, x, y)
    IN  { [ret |-> IF BitAnd(byte, mask(i)) # 0 THEN White ELSE Black,
           fetch |-> {i \div 8}] : byte \in Data_get_unchecked(s.data, i \div 8) }

get_color_checked_linear(s, x, y) ==
    IF ~(idx(s, x, y) < pixel_count(s))
    THEN {[ret |-> None, fetch |-> {}]}
    ELSE {[ret |-> Some(o.ret), fetch |-> o.fetch] : o \in get_color_unchecked(s, x, y)}

get_color_checked(s, x, y) ==
    IF ~is_within_bounds(s, x, y)
    THEN {[ret |-> None, fetch |-> {}]}
    ELSE {[ret |-> Some(o.ret), fetch |-> o.fetch] : o \in get_color_unchecked(s, x, y)}

get_color_or_black(s, x, y) ==
    { [ret |-> IF o.ret = None THEN Black ELSE o.ret[1], fetch |-> o.fetch]
        : o \in get_color_checked(s, x, y) }

\* expect(""): the color inside Some, a panic on None.
get_color(s, x, y) ==
    { IF o.ret = None THEN [ret |-> "panic", fetch |-> o.fetch]
                      ELSE [ret |-> o.ret[1], fetch |-> o.fetch]
        : o \in get_color_checked(s, x, y) }

\* ------------------------------------------------------------------ Pixels
Pixels_new(s) == [live |-> TRUE, cursor |-> 0]

pixels(s) == Pixels_new(s)

\* Pixels::next on an iterator with cursor c: the item, the cursor after the
\* call and the byte offset fetched.  Decoding divides by the width, which
\* panics when the width is zero.
Pixels_next(s, c) ==
    IF c >= pixel_count(s)
    THEN {[ret |-> None, cursor |-> c, fetch |-> {}]}
    ELSE IF s.width = 0
    THEN {[ret |-> Panic, cursor |-> c, fetch |-> {}]}
    ELSE { [ret |-> Some(<<c % s.width, c \div s.width, o.ret>>),
            cursor |-> c + 1, fetch |-> o.fetch]
            : o \in get_color_unchecked(s, c % s.width, c \div s.width) }

Pixels_len(s, c) == pixel_count(s) - c

\* ------------------------------------------------------------------ packer
RECURSIVE PackByte(_, _, _)
PackByte(img, j, b) ==
    IF b = 8 THEN 0
    ELSE (IF 8 * j + b < Len(img) /\ img[8 * j + b + 1] = White
          THEN 2 ^ (7 - b) ELSE 0) + PackByte(img, j, b + 1)

Pack(img) == [j \in 1..CeilDiv8(Len(img)) |-> PackByte(img, j - 1, 0)]

\* ------------------------------------------------------------------ inputs
RECURSIVE SeqsOf(_, _)
SeqsOf(S, n) ==
    IF n = 0 THEN {<<>>}
    ELSE {Append(q, e) : q \in SeqsOf(S, n - 1), e \in S}

RawData(w, h) == SeqsOf(ByteSamples, CeilDiv8(w * h))

\* Source images handed to the macro: all Black, all White, the checkerboard
\* starting White, and a single White pixel in the first or the last place.
Checkerboard(w, h) ==
    [k \in 1..(w * h) |-> IF (((k - 1) % w) + ((k - 1) \div w)) % 2 = 0
                          THEN White ELSE Black]

ImageSamples(w, h) ==
    LET n == w * h
    IN  {[k \in 1..n |-> Black], [k \in 1..n |-> White]}
        \cup (IF w = 0 THEN {} ELSE {Checkerboard(w, h)})
        \cup {[k \in 1..n |-> IF k = p THEN White ELSE Black] : p \in {1, n} \cap (1..n)}

\* The array that agrees with d on every bit below n and differs from it in
\* every trailing bit of the last byte.
TwinData(d, n) ==
    IF n % 8 = 0 THEN d
    ELSE LET m == 2 ^ (8 - (n % 8))
             l == Len(d)
         IN  [d EXCEPT ![l] = (d[l] - (d[l] % m)) + ((m - 1) - (d[l] % m))]

\* ------------------------------------------------------------------ state
\* stamp     the Stamp: width, height, data (lib.rs 111-115)
\* twin      a second Stamp of the same size whose array differs from the
\*           first one's only in the bits after the width * height-th
\* image     the pixel matrix the macro packed (empty for a direct from_raw)
\* built_by  "macro" or "from_raw"
\* iter      the Pixels iterator: whether one exists, and its cursor
\* produced  the items next() has returned so far
\* calls     the number of next() calls made on the iterator
\* last      the most recent call: operation, arguments, return value and the
\*           byte offsets it handed to the data fetch
VARIABLES stamp, twin, image, built_by, iter, produced, calls, last

vars == <<stamp, twin, image, built_by, iter, produced, calls, last>>

Coord == 0..MaxCoord

Init ==
    /\ \E w \in 0..MaxWidth, h \in 0..MaxHeight :
          /\ \/ \E d \in RawData(w, h) :
                   /\ built_by = "from_raw"
                   /\ image = <<>>
                   /\ stamp = from_raw(w, h, d)
             \/ \E img \in ImageSamples(w, h) :
                   /\ built_by = "macro"
                   /\ image = img
                   /\ stamp = from_raw(w, h, Pack(img))
          /\ twin = from_raw(w, h, TwinData(stamp.data, w * h))
    /\ iter = [live |-> FALSE, cursor |-> 0]
    /\ produced = <<>>
    /\ calls = 0
    /\ last = [op |-> "none", x |-> 0, y |-> 0, ret |-> None, fetch |-> {}]

Size ==
    /\ last' = [op |-> "size", x |-> 0, y |-> 0, ret |-> size(stamp), fetch |-> {}]
    /\ UNCHANGED <<stamp, twin, image, built_by, iter, produced, calls>>

Width ==
    /\ last' = [op |-> "width", x |-> 0, y |-> 0, ret |-> <<width(stamp)>>, fetch |-> {}]
    /\ UNCHANGED <<stamp, twin, image, built_by, iter, produced, calls>>

Height ==
    /\ last' = [op |-> "height", x |-> 0, y |-> 0, ret |-> <<height(stamp)>>, fetch |-> {}]
    /\ UNCHANGED <<stamp, twin, image, built_by, iter, produced, calls>>

PixelCount ==
    /\ last' = [op |-> "pixel_count", x |-> 0, y |-> 0,
                ret |-> <<pixel_count(stamp)>>, fetch |-> {}]
    /\ UNCHANGED <<stamp, twin, image, built_by, iter, produced, calls>>

IsWithinBounds ==
    /\ \E x \in Coord, y \in Coord :
          last' = [op |-> "is_within_bounds", x |-> x, y |-> y,
                   ret |-> <<is_within_bounds(stamp, x, y)>>, fetch |-> {}]
    /\ UNCHANGED <<stamp, twin, image, built_by, iter, produced, calls>>

GetColorChecked ==
    /\ \E x \in Coord, y \in Coord :
          \E o \in get_color_checked(stamp, x, y) :
             last' = [op |-> "get_color_checked", x |-> x, y |-> y,
                      ret |-> o.ret, fetch |-> o.fetch]
    /\ UNCHANGED <<stamp, twin, image, built_by, iter, produced, calls>>

GetColor ==
    /\ \E x \in Coord, y \in Coord :
          \E o \in get_color(stamp, x, y) :
             last' = [op |-> "get_color", x |-> x, y |-> y,
                      ret |-> <<o.ret>>, fetch |-> o.fetch]
    /\ UNCHANGED <<stamp, twin, image, built_by, iter, produced, calls>>

\* The caller's obligation (lib.rs, "# Safety"): the coordinate is within bounds.
GetColorUnchecked ==
    /\ \E x \in Coord, y \in Coord :
          /\ is_within_bounds(stamp, x, y)
          /\ \E o \in get_color_unchecked(stamp, x, y) :
                last' = [op |-> "get_color_unchecked", x |-> x, y |-> y,
                         ret |-> <<o.ret>>, fetch |-> o.fetch]
    /\ UNCHANGED <<stamp, twin, image, built_by, iter, produced, calls>>

Pixels ==
    /\ ~iter.live
    /\ iter' = pixels(stamp)
    /\ produced' = <<>>
    /\ calls' = 0
    /\ last' = [op |-> "pixels", x |-> 0, y |-> 0, ret |-> None, fetch |-> {}]
    /\ UNCHANGED <<stamp, twin, image, built_by>>

PixelsNext ==
    /\ iter.live
    /\ calls < stamp.width * stamp.height + MaxExtraNext
    /\ \E o \in Pixels_next(stamp, iter.cursor) :
          /\ iter' = [iter EXCEPT !.cursor = o.cursor]
          /\ produced' = IF o.ret # None /\ o.ret # Panic
                         THEN Append(produced, o.ret[1]) ELSE produced
          /\ last' = [op |-> "next", x |-> 0, y |-> 0, ret |-> o.ret, fetch |-> o.fetch]
    /\ calls' = calls + 1
    /\ UNCHANGED <<stamp, twin, image, built_by>>

IterLen ==
    /\ iter.live
    /\ last' = [op |-> "len", x |-> 0, y |-> 0,
                ret |-> <<Pixels_len(stamp, iter.cursor)>>, fetch |-> {}]
    /\ UNCHANGED <<stamp, twin, image, built_by, iter, produced, calls>>

Next ==
    \/ Size
    \/ Width
    \/ Height
    \/ PixelCount
    \/ IsWithinBounds
    \/ GetColorChecked
    \/ GetColor
    \/ GetColorUnchecked
    \/ Pixels
    \/ PixelsNext
    \/ IterLen

Spec == Init /\ [][Next]_vars

\* ------------------------------------------------------------------ claims
W == stamp.width
H == stamp.height
N == stamp.width * stamp.height

InBounds(x, y) == x < W /\ y < H

\* Bit position 7 - (k mod 8) of byte k / 8 of the array d.
BitAt(d, k) == (d[(k \div 8) + 1] \div (2 ^ (7 - (k % 8)))) % 2

ColorAt(d, k) == IF BitAt(d, k) = 1 THEN White ELSE Black

IsSome(r) == r # None /\ r # Panic

\* C1: for an in-bounds (x, y), get_color_checked, get_color and
\* get_color_unchecked all return White exactly when bit 7 - (k mod 8) of
\* byte k / 8 of the backing array is 1, k = y*W + x, and Black otherwise.
C1_GettersReadMsbFirstBit ==
    (/\ last.op \in {"get_color_checked", "get_color", "get_color_unchecked"}
     /\ InBounds(last.x, last.y))
    => last.ret = <<ColorAt(stamp.data, last.y * W + last.x)>>

C1_Witness ==
    /\ last.op = "get_color"
    /\ InBounds(last.x, last.y)
    /\ last.y * W + last.x >= 8
    /\ last.ret = <<White>>
    /\ stamp.data[1] = 170

\* C2: is_within_bounds(x, y) is true exactly when get_color_checked(x, y)
\* returns Some; a coordinate with x >= width gets None even when its linear
\* index y*width + x is below width*height.
C2_BoundsSymmetry ==
    /\ last.op = "is_within_bounds"
       => \A o \in get_color_checked(stamp, last.x, last.y) :
             last.ret[1] <=> (o.ret # None)
    /\ last.op = "get_color_checked"
       => /\ (last.ret # None) <=> InBounds(last.x, last.y)
          /\ last.x >= W => last.ret = None

C2_Witness ==
    /\ last.op = "get_color_checked"
    /\ last.x >= W
    /\ last.y * W + last.x < N
    /\ last.ret = None

\* C3: the k-th item (0-indexed) a fresh pixels() iterator produces is
\* (k mod W, k / W, c) with c the color get_color_unchecked returns there;
\* by exhaustion every pixel has been produced exactly once, row-major.
C3_RowMajorOrder ==
    /\ Len(produced) <= N
    /\ \A k \in 0..(Len(produced) - 1) :
          /\ produced[k + 1][1] = k % W
          /\ produced[k + 1][2] = k \div W
          /\ {produced[k + 1][3]}
                = {o.ret : o \in get_color_unchecked(stamp, k % W, k \div W)}
    /\ (last.op = "next" /\ IsSome(last.ret))
       => /\ Len(produced) > 0
          /\ last.ret = Some(produced[Len(produced)])
    /\ (last.op = "next" /\ ~IsSome(last.ret)) => Len(produced) = N

C3_Witness ==
    /\ W = 3
    /\ H = 3
    /\ last.op = "next"
    /\ last.ret = None
    /\ Len(produced) = 9
    /\ produced[6] = <<2, 1, White>>

\* C4: next() returns Some for exactly its first W*H calls and None for
\* every call after; the cursor never goes past W*H.
C4_ExhaustedStaysExhausted ==
    iter.live
    => /\ iter.cursor <= N
       /\ iter.cursor = (IF calls <= N THEN calls ELSE N)
       /\ last.op = "next" => (IsSome(last.ret) <=> calls <= N)
       /\ last.op = "next" => (last.ret = None <=> calls > N)

C4_Witness ==
    /\ iter.live
    /\ N > 0
    /\ calls = N + MaxExtraNext
    /\ last.op = "next"
    /\ last.ret = None
    /\ iter.cursor = N

\* What a get_color call returned, against the bounds and get_color_checked.
GetColorOutcome ==
    last.op = "get_color"
    => /\ (last.ret = <<"panic">>) <=> ~InBounds(last.x, last.y)
       /\ InBounds(last.x, last.y)
          => {Some(last.ret[1])} = {o.ret : o \in get_color_checked(stamp, last.x, last.y)}

\* C5: get_color(x, y) panics exactly when (x, y) is out of bounds; in
\* bounds it returns the color get_color_checked wraps in Some; either way
\* the Stamp is left unchanged.
C5_GetColorPanicsIffOutOfBounds ==
    /\ []GetColorOutcome
    /\ [][last'.op = "get_color" => stamp' = stamp]_vars

C5_Witness ==
    /\ last.op = "get_color"
    /\ N > 0
    /\ ~InBounds(last.x, last.y)
    /\ last.ret = <<"panic">>

\* C6: a Stamp of the same width and height whose array agrees on every bit
\* below width*height and differs only in the trailing bits of the last byte
\* gives the same result from size, width, height, pixel_count,
\* is_within_bounds, get_color_checked, get_color and the pixels() sequence.
C6_PaddingIgnored ==
    /\ last.op = "size" => last.ret = size(twin)
    /\ last.op = "width" => last.ret = <<width(twin)>>
    /\ last.op = "height" => last.ret = <<height(twin)>>
    /\ last.op = "pixel_count" => last.ret = <<pixel_count(twin)>>
    /\ last.op = "is_within_bounds"
       => last.ret = <<is_within_bounds(twin, last.x, last.y)>>
    /\ last.op = "get_color_checked"
       => {last.ret} = {o.ret : o \in get_color_checked(twin, last.x, last.y)}
    /\ last.op = "get_color"
       => {last.ret} = {<<o.ret>> : o \in get_color(twin, last.x, last.y)}
    /\ \A k \in 0..(Len(produced) - 1) :
          {Some(produced[k + 1])} = {o.ret : o \in Pixels_next(twin, k)}
    /\ (last.op = "next" /\ ~IsSome(last.ret))
       => {last.ret} = {o.ret : o \in Pixels_next(twin, iter.cursor)}

C6_Witness ==
    /\ twin.data # stamp.data
    /\ \A k \in 0..(N - 1) : BitAt(twin.data, k) = BitAt(stamp.data, k)
    /\ last.op = "get_color_checked"
    /\ last.x = W - 1
    /\ last.y = H - 1
    /\ last.ret = Some(Black)
    /\ BitAt(stamp.data, N) = 1

\* C7: packing a W x H matrix of Black / White pixels into the canonical
\* bytes (pixel k at bit 7 - (k mod 8) of byte k / 8, White = 1, zero padded)
\* and building a Stamp over them makes get_color_checked(x, y) return the
\* original color for every in-bounds (x, y).
C7_RoundTrip ==
    built_by = "macro"
    => /\ Len(stamp.data) = CeilDiv8(N)
       /\ (W = 3 /\ H = 3 /\ image = Checkerboard(3, 3)) => stamp.data = <<170, 128>>
       /\ (last.op = "get_color_checked" /\ InBounds(last.x, last.y))
          => last.ret = Some(image[last.y * W + last.x + 1])

C7_Witness ==
    /\ built_by = "macro"
    /\ last.op = "get_color_checked"
    /\ InBounds(last.x, last.y)
    /\ last.y * W + last.x = 8
    /\ last.ret = Some(White)
    /\ image[8] = Black

\* The remaining length the iterator reports in the current state.
Remaining == Pixels_len(stamp, iter.cursor)

RemainingIsExact ==
    iter.live
    => /\ Remaining = N - Len(produced)
       /\ Remaining >= 0
       /\ last.op = "len" => last.ret = <<N - Len(produced)>>

\* C8: the remaining length a pixels() iterator reports is always W*H minus
\* the number of items already produced, and it is the number of further
\* next() calls that return Some: next() returns Some exactly when it is
\* positive, and each Some lowers it by one.
C8_ExactRemainingLength ==
    /\ []RemainingIsExact
    /\ [][(iter.live /\ last'.op = "next")
          => /\ IsSome(last'.ret) <=> Remaining > 0
             /\ Remaining' = Remaining - (IF IsSome(last'.ret) THEN 1 ELSE 0)]_vars

C8_Witness ==
    /\ iter.live
    /\ last.op = "len"
    /\ Len(produced) = 4
    /\ last.ret = <<5>>

\* C9: every byte offset that get_color_checked, get_color and next() hand
\* to the data fetch is below ceil(width*height / 8), the length of the
\* backing array.
C9_FetchWithinArray ==
    /\ Len(stamp.data) = CeilDiv8(N)
    /\ last.op \in {"get_color_checked", "get_color", "next"}
       => \A i \in last.fetch : i < CeilDiv8(N)

C9_Witness ==
    /\ last.op = "next"
    /\ last.fetch = {CeilDiv8(N) - 1}
    /\ Len(produced) = N
    /\ N > 8

\* C10: for a zero-area Stamp over an empty array, pixel_count() is 0,
\* is_within_bounds and get_color_checked reject every coordinate, and
\* next() returns None without fetching a byte or dividing by the width.
C10_ZeroArea ==
    ((W = 0 \/ H = 0) /\ stamp.data = <<>>)
    => /\ last.op = "pixel_count" => last.ret = <<0>>
       /\ last.op = "is_within_bounds" => last.ret = <<FALSE>>
       /\ last.op = "get_color_checked" => (last.ret = None /\ last.fetch = {})
       /\ last.op = "next" => (last.ret = None /\ last.fetch = {})
       /\ produced = <<>>
       /\ iter.cursor = 0

C10_Witness ==
    /\ W = 0
    /\ H > 0
    /\ stamp.data = <<>>
    /\ last.op = "next"
    /\ last.ret = None
    /\ calls = 1

====
